---- MODULE Spec2Model ----
(***************************************************************************)
(* Crossing engine of pyknotid (spacecurves/helpers.py) and the direction  *)
(* sampler (spacecurves/rotation.py).                                      *)
(*                                                                         *)
(* Coordinates are integers (every float64 operation of the code is exact  *)
(* on them or is compared through exact squares); the fractional crossing  *)
(* parameters and the crossing positions are exact rationals <<n, d>>,     *)
(* d > 0, in lowest terms.                                                 *)
(***************************************************************************)
EXTENDS Integers, Sequences, FiniteSets, TLC

VARIABLES
  entry,               \* which public function was called
  pc,                  \* position of the running call
  error,               \* name of the raised exception, "" when none
  \* ---- arguments of raw_cross_loop
  lines, segment_lengths, max_segment_length, jump_mode,
  cumulative_lengths, include_closures,
  \* ---- locals of raw_cross_loop
  line_index, other_index, vnum, first_crossings, sec_crossings,
  \* ---- arguments and locals of find_crossings
  v, dv, points, other_seg_lengths,
  i, already_jumped, crossings, distance2, distance_travelled, jumps,
  \* ---- observation of the running find_crossings call
  i_hist,              \* value of i at each evaluation of the outer loop test
  tested,              \* calls of do_vectors_intersect: index and outcome
  len_reads,           \* indices read from segment_lengths
  returned,            \* every completed find_crossings call, in call order
  \* ---- get_rotation_angles
  number, angles,
  \* ---- do_vectors_intersect called on its own
  isect_args, isect_result

inputVars == <<lines, segment_lengths, max_segment_length, jump_mode,
               cumulative_lengths, include_closures>>
loopVars  == <<line_index, other_index, vnum, first_crossings, sec_crossings>>
callVars  == <<v, dv, points, other_seg_lengths>>
fcVars    == <<i, already_jumped, crossings, distance2, distance_travelled, jumps>>
obsVars   == <<i_hist, tested, len_reads>>
rotVars   == <<number, angles>>
isectVars == <<isect_args, isect_result>>
vars == <<entry, pc, error, inputVars, loopVars, callVars, fcVars, obsVars,
          returned, rotVars, isectVars>>

----------------------------------------------------------------------------
(* Bounds of the explored inputs *)
MaxShift == 4      \* translation of the second strand along x
MaxMSL   == 2      \* largest max_segment_length tried (0 is tried too)
MaxCount == 4      \* largest count given to get_rotation_angles
MaxP     == 1      \* do_vectors_intersect alone: coordinates of p and q
MaxD     == 2      \* do_vectors_intersect alone: |components| of dp and dq

(* Program constant: the parallel tolerance 0.00001 = TolNum / TolDen *)
TolNum == 1
TolDen == 100000

----------------------------------------------------------------------------
(* Exact arithmetic standing for the float64 arithmetic of the code *)
Abs(a) == IF a < 0 THEN -a ELSE a

RECURSIVE GCD(_, _)
GCD(a, b) == IF b = 0 THEN a ELSE GCD(b, a % b)

Rat(num, den) ==
  LET s == IF den < 0 THEN -1 ELSE 1
      g == GCD(Abs(num), Abs(den))
  IN  <<(s * num) \div g, (s * den) \div g>>

RInt(k) == <<k, 1>>
RAdd(a, b) == Rat(a[1] * b[2] + b[1] * a[2], a[2] * b[2])
RNeg(a) == <<-a[1], a[2]>>
RSub(a, b) == RAdd(a, RNeg(b))
RMul(a, b) == Rat(a[1] * b[1], a[2] * b[2])
RLess(a, b) == a[1] * b[2] < b[1] * a[2]

ISqrt(n) == CHOOSE r \in 0..n : r * r <= n /\ (r + 1) * (r + 1) > n

----------------------------------------------------------------------------
cross_product(px, py, qx, qy) == px * qy - py * qx

\* squared value of mag_difference / of the inline distance of find_crossings
mag_difference2(a, b) == (b[1] - a[1]) * (b[1] - a[1]) + (b[2] - a[2]) * (b[2] - a[2])

sign(a) == IF a > 0 THEN 1 ELSE IF a < 0 THEN -1 ELSE 0

RSign(a) == sign(a[1])

\* u computed from dq, as in the line for t
do_vectors_intersect_dq(px, py, dpx, dpy, qx, qy, dqx, dqy) ==
  LET c == cross_product(dpx, dpy, dqx, dqy)
  IN  IF Abs(c) * TolDen < TolNum
      THEN <<0, RInt(0), RInt(0)>>
      ELSE LET t == Rat(cross_product(qx - px, qy - py, dqx, dqy), c)
           IN  IF RLess(t, RInt(1)) /\ RLess(RInt(0), t)
               THEN LET u == Rat(cross_product(qx - px, qy - py, dqx, dqy), c)
                    IN  IF RLess(u, RInt(1)) /\ RLess(RInt(0), u)
                        THEN <<1, t, u>>
                        ELSE <<0, RInt(-1), RInt(-1)>>
               ELSE <<0, RInt(-1), RInt(-1)>>

do_vectors_intersect(px, py, dpx, dpy, qx, qy, dqx, dqy) ==
  LET c == cross_product(dpx, dpy, dqx, dqy)
  IN  IF Abs(c) * TolDen < TolNum
      THEN <<0, RInt(0), RInt(0)>>
      ELSE LET t == Rat(cross_product(qx - px, qy - py, dqx, dqy), c)
           IN  IF RLess(t, RInt(1)) /\ RLess(RInt(0), t)
               THEN LET u == Rat(cross_product(qx - px, qy - py, dpx, dpy), c)
                    IN  IF RLess(u, RInt(1)) /\ RLess(RInt(0), u)
                        THEN <<1, t, u>>
                        ELSE <<0, RInt(-1), RInt(-1)>>
               ELSE <<0, RInt(-1), RInt(-1)>>

----------------------------------------------------------------------------
(* Inputs: strands on the integer grid *)
At(s, k) == s[k + 1]                       \* 0-based indexing of the code

ShapeBar    == << <<0, 1>>, <<2, 1>>, <<4, 1>> >>
ShapeHook   == << <<1, 0>>, <<1, 2>>, <<3, 2>> >>
ShapeDiag   == << <<0, 0>>, <<2, 2>>, <<4, 0>> >>
ShapeSteps  == << <<0, 2>>, <<1, 2>>, <<1, 0>>, <<2, 0>> >>
ShapeSquare == << <<0, 0>>, <<2, 0>>, <<2, 2>>, <<0, 2>> >>
ShapeBack   == << <<8, 1>>, <<6, 1>>, <<4, 1>>, <<2, 1>>, <<0, 1>> >>
Shapes == {ShapeBar, ShapeHook, ShapeDiag, ShapeSteps, ShapeSquare, ShapeBack}

\* z of point k is zprof[1] + k * zprof[2]: constant, or rising along the strand
ZFlat(z0) == <<z0, 0>>
ZRamp     == <<0, 1>>

Strand(shape, shift, zprof) ==
  [k \in 1..Len(shape) |-> <<shape[k][1] + shift, shape[k][2], zprof[1] + (k - 1) * zprof[2]>>]

FirstPool  == {Strand(sh, 0, ZFlat(0)) : sh \in Shapes}
              \cup {Strand(sh, 0, ZRamp) : sh \in Shapes}
SecondPool == UNION {{Strand(sh, d, ZFlat(1)), Strand(sh, d, ZRamp)} :
                       sh \in Shapes, d \in 0..MaxShift}
ThirdPool  == {Strand(ShapeHook, 2, ZFlat(2))}

LineSets == {<<a, b>> : a \in FirstPool, b \in SecondPool}
            \cup {<<a, b, c>> : a \in {Strand(ShapeBar, 0, ZFlat(0))},
                                b \in SecondPool, c \in ThirdPool}

\* smallest integer >= sqrt(n)
CeilSqrt(n) == LET r == ISqrt(n) IN IF r * r = n THEN r ELSE r + 1

\* per-segment lengths of a strand as the caller precomputes them (projected
\* length, rounded up when it is not an integer), with the closing segment
\* when closures are requested
SegmentLengthsOf(line, closures) ==
  LET n == Len(line)
      m == IF closures # 0 THEN n ELSE n - 1
  IN  [k \in 1..m |-> CeilSqrt(mag_difference2(line[k], line[(k % n) + 1]))]

RECURSIVE CumulativeLengthsOf(_)
CumulativeLengthsOf(ls) ==
  IF ls = <<>> THEN <<0>>
  ELSE LET front == CumulativeLengthsOf(SubSeq(ls, 1, Len(ls) - 1))
       IN  Append(front, front[Len(front)] + Len(ls[Len(ls)]))

ZeroRow == <<RInt(0), RInt(0), RInt(0), RInt(0)>>
RowAdd(r, s) == [c \in 1..4 |-> RAdd(r[c], s[c])]
\* a local not assigned yet (every assigned buffer has at least one row)
Unset == <<>>

Idle ==
  /\ lines = <<>> /\ segment_lengths = <<>> /\ max_segment_length = 0
  /\ jump_mode = 0 /\ cumulative_lengths = <<>> /\ include_closures = 0
  /\ line_index = -1 /\ other_index = -1 /\ vnum = -1
  /\ first_crossings = Unset /\ sec_crossings = Unset
  /\ v = <<>> /\ dv = <<>> /\ points = <<>> /\ other_seg_lengths = <<>>
  /\ i = 0 /\ already_jumped = 0 /\ crossings = <<>> /\ distance2 = 0
  /\ distance_travelled = 0 /\ jumps = 0
  /\ i_hist = <<>> /\ tested = <<>> /\ len_reads = <<>> /\ returned = <<>>

InitRaw ==
  /\ entry = "raw_cross_loop" /\ pc = "for" /\ error = ""
  /\ lines \in LineSets
  /\ include_closures \in {0, 1}
  /\ jump_mode \in {1, 2, 3}
  /\ max_segment_length \in 0..MaxMSL
  /\ segment_lengths = [k \in 1..Len(lines) |-> SegmentLengthsOf(lines[k], include_closures)]
  /\ cumulative_lengths = CumulativeLengthsOf(SubSeq(lines, 1, Len(lines) - 1))
  /\ line_index = -1 /\ other_index = -1 /\ vnum = -1
  /\ first_crossings = Unset /\ sec_crossings = Unset
  /\ v = <<>> /\ dv = <<>> /\ points = <<>> /\ other_seg_lengths = <<>>
  /\ i = 0 /\ already_jumped = 0 /\ crossings = <<>> /\ distance2 = 0
  /\ distance_travelled = 0 /\ jumps = 0
  /\ i_hist = <<>> /\ tested = <<>> /\ len_reads = <<>> /\ returned = <<>>
  /\ number = 0 /\ angles = Unset
  /\ isect_args = <<>> /\ isect_result = Unset

----------------------------------------------------------------------------
(* raw_cross_loop: the three nested for loops *)

\* the range without the [:-1] of line 175
first_line_range_full(line, closures) == 0..(Len(line) - 1)

\* range(len(points)), without its last element when closures are excluded
first_line_range(line, closures) ==
  IF closures # 0 THEN 0..(Len(line) - 1) ELSE 0..(Len(line) - 2)

\* every (line_index, other_index, i) the nested loops visit
LoopTriples ==
  UNION {UNION {{<<a, b, q>> :
                   q \in first_line_range(At(lines, a), include_closures)} :
                b \in (a + 1)..(Len(lines) - 1)} :
         a \in 0..(Len(lines) - 1)}

LexLess(s, t) ==
  \/ s[1] < t[1]
  \/ s[1] = t[1] /\ s[2] < t[2]
  \/ s[1] = t[1] /\ s[2] = t[2] /\ s[3] < t[3]

Remaining == {t \in LoopTriples : LexLess(<<line_index, other_index, vnum>>, t)}
NextTriple == CHOOSE t \in Remaining : \A o \in Remaining : o = t \/ LexLess(t, o)

\* comparison_points of the pair: the other line, closed when requested
comparison_points(other_line, closures) ==
  IF closures # 0 THEN Append(other_line, other_line[1]) ELSE other_line

\* loop headers, argument set-up and the call of find_crossings
NextSegment ==
  /\ pc = "for" /\ Remaining # {}
  /\ LET t    == NextTriple
         line == At(lines, t[1])
         v0   == At(line, t[3])
         nxt  == At(line, (t[3] + 1) % Len(line))
         cmp  == comparison_points(At(lines, t[2]), include_closures)
     IN  /\ line_index' = t[1] /\ other_index' = t[2] /\ vnum' = t[3]
         /\ v' = v0
         /\ dv' = <<nxt[1] - v0[1], nxt[2] - v0[2], nxt[3] - v0[3]>>
         /\ points' = cmp
         /\ other_seg_lengths' = At(segment_lengths, t[2])
         /\ crossings' = [k \in 1..Len(cmp) |-> ZeroRow]
  /\ i' = 0 /\ already_jumped' = 0
  /\ distance2' = 0 /\ distance_travelled' = 0 /\ jumps' = 0
  /\ i_hist' = <<>> /\ tested' = <<>> /\ len_reads' = <<>>
  /\ pc' = "fc"
  /\ UNCHANGED <<entry, error, inputVars, first_crossings, sec_crossings,
                 returned, rotVars, isectVars>>

\* rows start, start + 2, ... of a buffer (1-based start), as a sequence
Stride2(buf, start) ==
  [k \in 1..((Len(buf) - start + 2) \div 2) |-> buf[start + 2 * (k - 1)]]

Offset(rows, off0, off1) ==
  [k \in 1..Len(rows) |->
     <<RAdd(rows[k][1], RInt(off0)), RAdd(rows[k][2], RInt(off1)),
       rows[k][3], rows[k][4]>>]

FirstOf(buf, a, b) ==
  Offset(Stride2(buf, 1), At(cumulative_lengths, a), At(cumulative_lengths, b))
SecOf(buf, a, b) ==
  Offset(Stride2(buf, 2), At(cumulative_lengths, b), At(cumulative_lengths, a))

\* find_crossings has returned: slice and offset its buffer
StoreCrossings ==
  /\ pc = "ret"
  /\ IF Len(crossings) = 0
     THEN UNCHANGED <<first_crossings, sec_crossings>>
     ELSE /\ first_crossings' = FirstOf(crossings, line_index, other_index)
          /\ sec_crossings' = SecOf(crossings, line_index, other_index)
  /\ returned' = Append(returned,
       [line_index |-> line_index, other_index |-> other_index, vnum |-> vnum,
        new_crossings |-> crossings, tested |-> tested])
  /\ pc' = "for"
  /\ UNCHANGED <<entry, error, inputVars, line_index, other_index, vnum,
                 callVars, fcVars, obsVars, rotVars, isectVars>>

\* the loops are exhausted: return first_crossings, sec_crossings
ReturnCrossings ==
  /\ pc = "for" /\ Remaining = {}
  /\ IF first_crossings = Unset
     THEN pc' = "error" /\ error' = "UnboundLocalError"
     ELSE pc' = "done" /\ error' = error
  /\ UNCHANGED <<entry, inputVars, loopVars, callVars, fcVars, obsVars,
                 returned, rotVars, isectVars>>

----------------------------------------------------------------------------
(* find_crossings: one action per pass of its while loops *)

\* csqrt(d2) < k, on exact integers
SqrtLess(d2, k) == k > 0 /\ d2 < k * k
\* k < csqrt(d2)
LessSqrt(k, d2) == k < 0 \/ k * k < d2

InLoop == pc = "fc" /\ i < Len(points) - 1

\* distance from the query point to points[i], squared
Distance2 == mag_difference2(v, At(points, i))

\* distance < twice_max_segment_length, at comparison point k
Close(k) == SqrtLess(mag_difference2(v, At(points, k)), 2 * max_segment_length)

Near == Close(i) \/ already_jumped # 0

\* the two records of one intersection, as find_crossings writes them
QueryRecord(current_index, comparison_index, k, hit, s, d) ==
  <<RAdd(RInt(current_index), hit[2]),
    RAdd(RInt(comparison_index + k), hit[3]), RInt(s), RInt(s * d)>>
ComparisonRecord(current_index, comparison_index, k, hit, s, d) ==
  <<RAdd(RInt(comparison_index + k), hit[3]),
    RAdd(RInt(current_index), hit[2]), RInt(-s), RInt(s * d)>>

\* crossings[k] += first record; crossings[k] += second record
AddRecords(buf, k, r1, r2) ==
  [buf EXCEPT ![k + 1] = RowAdd(RowAdd(@, r1), r2)]

\* while condition false: return crossings
FC_Exit ==
  /\ pc = "fc" /\ ~(i < Len(points) - 1)
  /\ i_hist' = Append(i_hist, i)
  /\ pc' = "ret"
  /\ UNCHANGED <<entry, error, inputVars, loopVars, callVars, fcVars, tested,
                 len_reads, returned, rotVars, isectVars>>

\* the intersection test of the query segment against comparison segment k,
\* with the sign and the direction of the crossing
SegmentTest(k) ==
  LET point      == At(points, k)
      next_point == At(points, k + 1)
      jump_x     == next_point[1] - point[1]
      jump_y     == next_point[2] - point[2]
      jump_z     == next_point[3] - point[3]
      hit == do_vectors_intersect(v[1], v[2], dv[1], dv[2],
                                  point[1], point[2], jump_x, jump_y)
  IN  [k |-> k, intersect |-> hit[1], t |-> hit[2], u |-> hit[3],
       crossing_sign |->
         IF hit[1] = 0 THEN 0
         ELSE RSign(RSub(RAdd(RInt(v[3]), RMul(hit[2], RInt(dv[3]))),
                         RAdd(RInt(point[3]), RMul(hit[3], RInt(jump_z))))),
       crossing_direction |->
         IF hit[1] = 0 THEN 0
         ELSE sign(cross_product(dv[1], dv[2], jump_x, jump_y))]

\* the buffer after segment k was tested (current_index = vnum,
\* comparison_index = compnum = 0)
TestedBuffer(buf, k) ==
  LET r == SegmentTest(k)
      hit == <<r.intersect, r.t, r.u>>
  IN  IF r.intersect # 0
      THEN AddRecords(buf, k,
             QueryRecord(vnum, 0, k, hit, r.crossing_sign, r.crossing_direction),
             ComparisonRecord(vnum, 0, k, hit, r.crossing_sign, r.crossing_direction))
      ELSE buf

\* close enough, or a jump was just taken: test segment i
FC_Test ==
  /\ InLoop /\ Near
  /\ crossings' = TestedBuffer(crossings, i)
  /\ tested' = Append(tested, SegmentTest(i))
  /\ already_jumped' = 0
  /\ i' = i + 1
  /\ i_hist' = Append(i_hist, i)
  /\ UNCHANGED <<entry, pc, error, inputVars, loopVars, callVars, distance2,
                 distance_travelled, jumps, len_reads, returned, rotVars,
                 isectVars>>

\* jump_mode == 3: step over point i
FC_Naive ==
  /\ InLoop /\ ~Near /\ jump_mode = 3
  /\ i' = i + 1
  /\ already_jumped' = 1
  /\ i_hist' = Append(i_hist, i)
  /\ UNCHANGED <<entry, pc, error, inputVars, loopVars, callVars, crossings,
                 distance2, distance_travelled, jumps, tested, len_reads,
                 returned, rotVars, isectVars>>

\* int(floor(distance / max_segment_length) - 1), at least 1
num_jumps(d2, msl) ==
  LET raw == IF msl > 0 THEN (ISqrt(d2) \div msl) - 1 ELSE -1
  IN  IF raw < 1 THEN 1 ELSE raw

\* jump_mode == 2: jump by the worst-case number of segments
FC_MaxJump ==
  /\ InLoop /\ ~Near /\ jump_mode = 2
  /\ i_hist' = Append(i_hist, i)
  /\ IF max_segment_length = 0
     THEN /\ pc' = "error" /\ error' = "ZeroDivisionError"
          /\ UNCHANGED <<i, already_jumped>>
     ELSE /\ i' = i + num_jumps(Distance2, max_segment_length)
          /\ already_jumped' = 1
          /\ UNCHANGED <<pc, error>>
  /\ UNCHANGED <<entry, inputVars, loopVars, callVars, crossings, distance2,
                 distance_travelled, jumps, tested, len_reads, returned,
                 rotVars, isectVars>>

\* any other jump_mode: start accumulating segment lengths
FC_AccumStart ==
  /\ InLoop /\ ~Near /\ jump_mode \notin {2, 3}
  /\ distance2' = Distance2
  /\ distance_travelled' = 0
  /\ jumps' = 0
  /\ i_hist' = Append(i_hist, i)
  /\ pc' = "inner"
  /\ UNCHANGED <<entry, error, inputVars, loopVars, callVars, i, already_jumped,
                 crossings, tested, len_reads, returned, rotVars, isectVars>>

\* distance_travelled < (distance - max_segment_length) and i < len(points)
InnerCond ==
  /\ LessSqrt(distance_travelled + max_segment_length, distance2)
  /\ i < Len(points)

\* what an out-of-range read of a float64 array may deliver
Garbage == {0, 1}

\* one pass of the inner while loop
FC_AccumStep ==
  /\ pc = "inner" /\ InnerCond
  /\ len_reads' = Append(len_reads, i)
  /\ \/ /\ i < Len(other_seg_lengths)
        /\ distance_travelled' = distance_travelled + At(other_seg_lengths, i)
        /\ jumps' = jumps + 1 /\ i' = i + 1
        /\ UNCHANGED <<pc, error>>
     \/ /\ ~(i < Len(other_seg_lengths))         \* unchecked read
        /\ \E g \in Garbage : distance_travelled' = distance_travelled + g
        /\ jumps' = jumps + 1 /\ i' = i + 1
        /\ UNCHANGED <<pc, error>>
     \/ /\ ~(i < Len(other_seg_lengths))         \* bounds-checked read
        /\ pc' = "error" /\ error' = "IndexError"
        /\ UNCHANGED <<distance_travelled, jumps, i>>
  /\ UNCHANGED <<entry, inputVars, loopVars, callVars, already_jumped,
                 crossings, distance2, i_hist, tested, returned, rotVars,
                 isectVars>>

\* the back-up by two taken after a single jump too
FC_AccumEnd_always ==
  /\ pc = "inner" /\ ~InnerCond
  /\ i' = IF jumps > 0 THEN i - 2 ELSE i
  /\ already_jumped' = 1
  /\ pc' = "fc"
  /\ UNCHANGED <<entry, error, inputVars, loopVars, callVars, crossings,
                 distance2, distance_travelled, jumps, obsVars, returned,
                 rotVars, isectVars>>

\* inner loop over: back up by two when more than one jump was made
FC_AccumEnd ==
  /\ pc = "inner" /\ ~InnerCond
  /\ i' = IF jumps > 1 THEN i - 2 ELSE i
  /\ already_jumped' = 1
  /\ pc' = "fc"
  /\ UNCHANGED <<entry, error, inputVars, loopVars, callVars, crossings,
                 distance2, distance_travelled, jumps, obsVars, returned,
                 rotVars, isectVars>>

----------------------------------------------------------------------------
(* get_rotation_angles: the rows are kept as h_k (theta = arccos(h_k)) and   *)
(* as whether phi is the forced 0 or a value of the spiral recurrence        *)
AngleRow(k, n) ==
  IF k = 1 THEN [h |-> RInt(-1), phi |-> "zero"]
  ELSE [h |-> RAdd(RInt(-1), Rat(2 * (k - 1), n - 1)),
        phi |-> IF k = n THEN "zero" ELSE "spiral"]

get_rotation_angles(n) ==
  IF n < 0 THEN [error |-> "ValueError", value |-> <<>>]       \* n.zeros((number, 2))
  ELSE IF n = 0 THEN [error |-> "IndexError", value |-> <<>>]  \* angles[0] = ...
  ELSE [error |-> "", value |-> [k \in 1..n |-> AngleRow(k, n)]]

InitAngles ==
  /\ entry = "get_rotation_angles" /\ pc = "call" /\ error = ""
  /\ number \in -1..MaxCount /\ angles = Unset
  /\ Idle
  /\ isect_args = <<>> /\ isect_result = Unset

GetRotationAngles ==
  /\ entry = "get_rotation_angles" /\ pc = "call"
  /\ LET r == get_rotation_angles(number)
     IN  /\ angles' = r.value
         /\ error' = r.error
         /\ pc' = IF r.error = "" THEN "done" ELSE "error"
  /\ UNCHANGED <<entry, inputVars, loopVars, callVars, fcVars, obsVars,
                 returned, number, isectVars>>

----------------------------------------------------------------------------
(* do_vectors_intersect on its own, on every small integer input *)
InitIntersect ==
  /\ entry = "do_vectors_intersect" /\ pc = "call" /\ error = ""
  /\ isect_args \in (0..MaxP) \X (0..MaxP) \X (-MaxD..MaxD) \X (-MaxD..MaxD)
                \X (0..MaxP) \X (0..MaxP) \X (-MaxD..MaxD) \X (-MaxD..MaxD)
  /\ isect_result = Unset
  /\ Idle
  /\ number = 0 /\ angles = Unset

CallIntersect ==
  /\ entry = "do_vectors_intersect" /\ pc = "call"
  /\ isect_result' = do_vectors_intersect(
       isect_args[1], isect_args[2], isect_args[3], isect_args[4],
       isect_args[5], isect_args[6], isect_args[7], isect_args[8])
  /\ pc' = "done"
  /\ UNCHANGED <<entry, error, inputVars, loopVars, callVars, fcVars, obsVars,
                 returned, rotVars, isect_args>>

----------------------------------------------------------------------------
NextRaw ==
  \/ NextSegment \/ StoreCrossings \/ ReturnCrossings
  \/ FC_Exit \/ FC_Test \/ FC_Naive \/ FC_MaxJump
  \/ FC_AccumStart \/ FC_AccumStep \/ FC_AccumEnd

Init == InitRaw \/ InitAngles
Next == NextRaw \/ GetRotationAngles
Spec == Init /\ [][Next]_vars

SpecIntersect == InitIntersect /\ [][CallIntersect]_vars

----------------------------------------------------------------------------
(* C5: do_vectors_intersect reports an intersection exactly when dp x dq is  *)
(* at least the tolerance in magnitude and the unique solution (t, u) of     *)
(* p + t*dp = q + u*dq has both parameters strictly inside (0, 1); the       *)
(* reported (t, u) is that solution.                                         *)

\* p + (tn/d)*dp = q + (un/d)*dq, on both coordinates
Solves(a, tn, un, d) ==
  /\ d * a[1] + tn * a[3] = d * a[5] + un * a[7]
  /\ d * a[2] + tn * a[4] = d * a[6] + un * a[8]

\* an interior solution exists (its denominator divides dp x dq)
InteriorSolution(a) ==
  LET c == Abs(cross_product(a[3], a[4], a[7], a[8]))
  IN  \E tn \in 1..(c - 1), un \in 1..(c - 1) : Solves(a, tn, un, c)

AboveTolerance(a) ==
  Abs(cross_product(a[3], a[4], a[7], a[8])) * TolDen >= TolNum

C5_IntersectIffInterior ==
  (entry = "do_vectors_intersect" /\ pc = "done") =>
    /\ (isect_result[1] = 1) <=> (AboveTolerance(isect_args) /\ InteriorSolution(isect_args))
    /\ isect_result[1] = 1 =>
         LET t == isect_result[2]
             u == isect_result[3]
         IN  /\ Solves(isect_args, t[1] * u[2], u[1] * t[2], t[2] * u[2])
             /\ 0 < t[1] /\ t[1] < t[2] /\ 0 < u[1] /\ u[1] < u[2]

\* an intersection was reported with different parameters on the two segments
C5_Witness ==
  /\ entry = "do_vectors_intersect" /\ pc = "done"
  /\ isect_result[1] = 1 /\ isect_result[2] # isect_result[3]

----------------------------------------------------------------------------
InCall == entry = "raw_cross_loop" /\ pc \in {"fc", "inner", "ret"}
Hits(ts) == {j \in 1..Len(ts) : ts[j].intersect = 1}
Unit3 == {RInt(-1), RInt(0), RInt(1)}

(* C1: every intersection detected by find_crossings leaves two separately  *)
(* readable records in the buffer, (pos_query, pos_comparison, sign,        *)
(* direction) and (pos_comparison, pos_query, -sign, direction), with sign  *)
(* and direction in {-1, 0, +1}.                                            *)
C1_TwoMirroredRecords ==
  InCall =>
    \A j \in Hits(tested) :
      LET h     == tested[j]
          pos_q == RAdd(RInt(vnum), h.t)
          pos_c == RAdd(RInt(h.k), h.u)
      IN  \E r1, r2 \in 1..Len(crossings) :
            /\ r1 # r2
            /\ crossings[r1][1] = pos_q /\ crossings[r1][2] = pos_c
            /\ crossings[r2][1] = pos_c /\ crossings[r2][2] = pos_q
            /\ crossings[r1][3] = RNeg(crossings[r2][3])
            /\ crossings[r1][4] = crossings[r2][4]
            /\ crossings[r1][3] \in Unit3 /\ crossings[r1][4] \in Unit3

(* C3: raw_cross_loop calls find_crossings once for every unordered pair    *)
(* and every query segment of the first strand, and no crossing found by    *)
(* any of these calls is missing from the two returned sequences.           *)
RowsOf(sq) == {sq[r] : r \in 1..Len(sq)}

C3_AllPairsAllSegments ==
  (entry = "raw_cross_loop" /\ pc = "done") =>
    /\ Len(returned) = Cardinality(LoopTriples)
    /\ {<<returned[c].line_index, returned[c].other_index, returned[c].vnum>> :
          c \in 1..Len(returned)} = LoopTriples
    /\ \A c \in 1..Len(returned) :
         \A j \in Hits(returned[c].tested) :
           LET call == returned[c]
               k == call.tested[j].k
               fst == FirstOf(call.new_crossings, call.line_index, call.other_index)
               snd == SecOf(call.new_crossings, call.line_index, call.other_index)
               row == IF k % 2 = 0 THEN fst[(k \div 2) + 1] ELSE snd[(k \div 2) + 1]
           IN  row \in RowsOf(first_crossings) \cup RowsOf(sec_crossings)

(* C4: a returned crossing between query segment i of strand a (parameter   *)
(* t) and comparison segment j of strand b (parameter u) is recorded as     *)
(* (i + t + cumulative_lengths[a], j + u + cumulative_lengths[b]) in the    *)
(* first-strand sequence and with the two values swapped in the second.     *)
C4_PositionsOffset ==
  (entry = "raw_cross_loop" /\ pc = "done") =>
    LET call == returned[Len(returned)]
    IN  \A j \in Hits(call.tested) :
          LET h    == call.tested[j]
              posA == RAdd(RAdd(RInt(call.vnum), h.t),
                           RInt(At(cumulative_lengths, call.line_index)))
              posB == RAdd(RAdd(RInt(h.k), h.u),
                           RInt(At(cumulative_lengths, call.other_index)))
          IN  /\ \E r \in RowsOf(first_crossings) : r[1] = posA /\ r[2] = posB
              /\ \E r \in RowsOf(sec_crossings) : r[1] = posB /\ r[2] = posA

(* C6: with jump_mode 3 and any positive max_segment_length every           *)
(* comparison segment is passed to the intersection test, so every          *)
(* comparison segment that intersects the query segment has a crossing in   *)
(* the returned buffer.                                                     *)
C6_ExhaustiveTestsAll ==
  (entry = "raw_cross_loop" /\ pc = "ret" /\ jump_mode = 3
     /\ max_segment_length > 0) =>
    /\ {tested[j].k : j \in 1..Len(tested)} = 0..(Len(points) - 2)
    /\ \A k \in 0..(Len(points) - 2) :
         SegmentTest(k).intersect = 1 => crossings[k + 1] # ZeroRow

(* C7: invalid configuration is rejected: get_rotation_angles with          *)
(* count < 2 ends in an error, and find_crossings with a non-positive       *)
(* max_segment_length or a segment-length array of the wrong size returns   *)
(* no buffer.                                                               *)
C7_InvalidRejected ==
  /\ (entry = "get_rotation_angles" /\ number < 2 /\ pc # "call") => pc = "error"
  /\ (entry = "raw_cross_loop" /\ pc \in {"ret", "done"}) =>
       /\ max_segment_length > 0
       /\ Len(other_seg_lengths) = Len(points) - 1

(* C8: with include_closures the query segments of an n-point first strand  *)
(* are point[i] -> point[(i+1) mod n] for i in 0..n-1 and the comparison    *)
(* strand carries its closing segment; without it the wrap-around segment   *)
(* is neither a query segment nor a comparison segment.                     *)
QueriesOf(a, b) ==
  {returned[c].vnum : c \in {d \in 1..Len(returned) :
      returned[d].line_index = a /\ returned[d].other_index = b}}

C8_Closures ==
  /\ InCall =>
       LET line  == At(lines, line_index)
           other == At(lines, other_index)
           n     == Len(line)
           tip   == <<v[1] + dv[1], v[2] + dv[2], v[3] + dv[3]>>
       IN  /\ v = At(line, vnum)
           /\ include_closures # 0 =>
                /\ vnum \in 0..(n - 1)
                /\ tip = At(line, (vnum + 1) % n)
                /\ Len(points) = Len(other) + 1
                /\ SubSeq(points, 1, Len(other)) = other
                /\ points[Len(points)] = other[1]
           /\ include_closures = 0 =>
                /\ vnum \in 0..(n - 2)
                /\ tip = At(line, vnum + 1)
                /\ points = other
  /\ (entry = "raw_cross_loop" /\ pc = "done") =>
       \A a \in 0..(Len(lines) - 1), b \in 0..(Len(lines) - 1) :
         a < b =>
           QueriesOf(a, b) = IF include_closures # 0
                             THEN 0..(Len(At(lines, a)) - 1)
                             ELSE 0..(Len(At(lines, a)) - 2)

\* the closing segment of the first strand met the closing segment of the
\* comparison strand
C8_Witness ==
  /\ entry = "raw_cross_loop" /\ pc = "ret" /\ include_closures = 1
  /\ vnum = Len(At(lines, line_index)) - 1
  /\ \E j \in Hits(tested) : tested[j].k = Len(points) - 2

(* C9: for a positive max_segment_length the comparison index never falls   *)
(* below its value at the start of an outer-loop pass, grows strictly over  *)
(* any two consecutive passes, no segment is tested twice, the inner loop   *)
(* stops at len(points) and the outer loop ends within 2 * len(points)      *)
(* passes.                                                                  *)
\* i at the head of the passes so far, then its current value
Heads == IF pc = "inner" THEN i_hist ELSE Append(i_hist, i)

C9_Progress ==
  (InCall /\ max_segment_length > 0) =>
    /\ \A j \in 1..(Len(Heads) - 1) : Heads[j + 1] >= Heads[j]
    /\ \A j \in 1..(Len(Heads) - 2) : Heads[j + 2] > Heads[j]
    /\ pc = "inner" => i >= i_hist[Len(i_hist)] /\ i <= Len(points)
    /\ \A j \in 1..(Len(tested) - 1) : tested[j + 1].k > tested[j].k
    /\ Len(i_hist) <= 2 * Len(points)
    /\ pc = "ret" => i >= Len(points) - 1

\* the back-up by two undid the whole advance of a pass, and the call ended
C9_Witness ==
  /\ entry = "raw_cross_loop" /\ pc = "ret" /\ max_segment_length > 0
  /\ jump_mode = 1
  /\ \E j \in 1..(Len(i_hist) - 1) : i_hist[j + 1] = i_hist[j]

(* C10: every array read of find_crossings is in range: i is never          *)
(* negative, points[i+1] is read with i+1 <= len(points)-1 and              *)
(* segment_lengths[i] only for an existing comparison segment.              *)
C10_ReadsInRange ==
  InCall =>
    /\ i >= 0
    /\ \A j \in 1..Len(tested) : tested[j].k + 1 <= Len(points) - 1
    /\ \A j \in 1..Len(len_reads) : len_reads[j] <= Len(points) - 2

(* C2: when the query segment and every comparison segment have projected  *)
(* length at most max_segment_length (> 0) and segment_lengths holds the    *)
(* length of each comparison segment, find_crossings returns the same       *)
(* buffer under jump_mode 2, 3 and the accumulated-length mode.             *)

\* the buffer find_crossings returns under jump_mode 3, from comparison
\* point k on (lines 95-134 with the branch of line 132)
RECURSIVE NaiveScan(_, _, _)
NaiveScan(k, jumped, buf) ==
  IF ~(k < Len(points) - 1) THEN buf
  ELSE IF Close(k) \/ jumped
       THEN NaiveScan(k + 1, FALSE, TestedBuffer(buf, k))
       ELSE NaiveScan(k + 1, TRUE, buf)

LowVariance ==
  /\ max_segment_length > 0
  /\ dv[1] * dv[1] + dv[2] * dv[2] <= max_segment_length * max_segment_length
  /\ Len(other_seg_lengths) = Len(points) - 1
  /\ \A k \in 1..(Len(points) - 1) :
       /\ mag_difference2(points[k], points[k + 1])
            <= max_segment_length * max_segment_length
       /\ other_seg_lengths[k] * other_seg_lengths[k]
            = mag_difference2(points[k], points[k + 1])

C2_ModesAgree ==
  (entry = "raw_cross_loop" /\ pc \in {"fc", "inner", "ret", "error"}
     /\ LowVariance) =>
    /\ pc # "error"
    /\ pc = "ret" =>
         crossings = NaiveScan(0, FALSE, [k \in 1..Len(points) |-> ZeroRow])

\* the same, for the calls that did return a buffer
C2_AgreeWhenReturned ==
  (entry = "raw_cross_loop" /\ pc = "ret" /\ LowVariance) =>
    crossings = NaiveScan(0, FALSE, [k \in 1..Len(points) |-> ZeroRow])

\* a call under the hypothesis that skipped a segment in the
\* accumulated-length mode, returned and found a crossing
C2_Case ==
  /\ entry = "raw_cross_loop" /\ pc = "ret" /\ LowVariance
  /\ jump_mode = 1 /\ Len(tested) < Len(points) - 1
  /\ Hits(tested) # {}

\* jump_mode 3 with a positive max_segment_length misses an intersection
C6_MissedCrossing ==
  (entry = "raw_cross_loop" /\ pc = "ret" /\ jump_mode = 3
     /\ max_segment_length > 0) =>
    \A k \in 0..(Len(points) - 2) :
      SegmentTest(k).intersect = 1 => crossings[k + 1] # ZeroRow

====
